---- MODULE Spec2Model ----
(***************************************************************************)
(* imap-to-lexoffice (main.go): a poll cycle connects to an IMAP server,   *)
(* lists the INBOX, and for every message uploads its attachments to       *)
(* Lexoffice and moves the message to the "done" folder.                   *)
(*                                                                         *)
(* The program is one goroutine; pc is its position in main.go.  The IMAP  *)
(* store (inbox, flags, done, folders) is the only durable state.  A       *)
(* command that fails is one the server rejected: it has no effect on the  *)
(* store.  Properties of the message bytes (unparsable header, a part the  *)
(* parser rejects, an undecodable payload) are fixed per message in        *)
(* content; network and server failures are chosen at every call.          *)
(***************************************************************************)
EXTENDS Integers, Sequences, FiniteSets, TLC

\* Number of messages in the mailbox store (UIDs 1..MaxUID).
MaxUID == 2
\* Capacity of the "done" folder: a COPY into a full folder is rejected.
DoneQuota == 2

UIDs == 1..MaxUID

(***************************************************************************)
(* Filenames are sequences of characters.                                  *)
(***************************************************************************)
InvoicePdf == <<"i","n","v","o","i","c","e",".","p","d","f">>
AgbTermsPdf == <<"A","G","B","_","t","e","r","m","s",".","p","d","f">>
ReceiptPdf == <<"r","e","c","e","i","p","t",".","p","d","f">>
EventIcs == <<"e","v","e","n","t",".","i","c","s">>
Agb2024Pdf == <<"A","G","B","_","2","0","2","4",".","p","d","f">>
NoName == <<>>

\* Number of pieces a generated filename is put together from.
MaxTokens == 2

Tokens ==
    { <<"A","G","B","_">>, <<"A","G","B">>, <<"a","g","b","_">>,
      <<"R","e","c","e","i","p","t","-">>, <<"R","e","c","e","i","p","t">>,
      <<"i","c","s">>, <<".">>, <<"x">>, <<"\n">> }

RECURSIVE NamesUpTo(_)
NamesUpTo(n) ==
    IF n = 0 THEN {NoName}
    ELSE LET shorter == NamesUpTo(n - 1) IN
         shorter \cup {name \o token : name \in shorter, token \in Tokens}

Filenames ==
    NamesUpTo(MaxTokens) \cup {InvoicePdf, AgbTermsPdf, ReceiptPdf, EventIcs, Agb2024Pdf}

(***************************************************************************)
(* regexp: a pattern is a sequence of atoms (a literal character or "ANY", *)
(* the dot) with optional ^ and $ anchors.  MatchString is an unanchored   *)
(* search, as in Go; the dot does not match a newline.                     *)
(***************************************************************************)
ANY == "ANY"

Pattern(anchorStart, atoms, anchorEnd) ==
    [anchorStart |-> anchorStart, atoms |-> atoms, anchorEnd |-> anchorEnd]

IgnorePatterns ==
    << Pattern(TRUE, <<"A","G","B","_">>, FALSE),
       Pattern(FALSE, <<ANY,"i","c","s">>, TRUE),
       Pattern(TRUE, <<"R","e","c","e","i","p","t","-">>, FALSE) >>

AtomMatches(atom, ch) == IF atom = ANY THEN ch # "\n" ELSE atom = ch

MatchesAt(pattern, s, start) ==
    LET n == Len(pattern.atoms) IN
    /\ start + n - 1 <= Len(s)
    /\ \A k \in 1..n : AtomMatches(pattern.atoms[k], s[start + k - 1])
    /\ pattern.anchorStart => start = 1
    /\ pattern.anchorEnd => start + n - 1 = Len(s)

MatchString(pattern, s) == \E start \in 1..(Len(s) + 1) : MatchesAt(pattern, s, start)

\* The loop as it would be if it returned after testing its first pattern.
IgnoreFromFirstOnly(filename, i) == MatchString(IgnorePatterns[i], filename)

RECURSIVE IgnoreFrom(_, _)
IgnoreFrom(filename, i) ==
    IF i > Len(IgnorePatterns) THEN FALSE
    ELSE IF MatchString(IgnorePatterns[i], filename) THEN TRUE
    ELSE IgnoreFrom(filename, i + 1)

shouldIgnoreFile(filename) == IgnoreFrom(filename, 1)

(***************************************************************************)
(* Messages.  A part is inline or an attachment with a filename and a      *)
(* payload that io.ReadAll can or cannot decode.  A message is its parts   *)
(* in parser order, followed by end-of-parts ("eof") or by something the   *)
(* parser rejects ("error"); headerOk is whether mail.CreateReader accepts *)
(* the message header.                                                     *)
(***************************************************************************)
Inline == [kind |-> "inline", filename |-> NoName, readable |-> TRUE]
Attachment(filename, readable) ==
    [kind |-> "attachment", filename |-> filename, readable |-> readable]

Message(headerOk, parts, end) == [headerOk |-> headerOk, parts |-> parts, end |-> end]

Shapes ==
    { Message(TRUE, <<Inline>>, "eof"),
      Message(TRUE, <<Inline, Attachment(AgbTermsPdf, TRUE), Attachment(ReceiptPdf, TRUE)>>, "eof"),
      Message(TRUE, <<Attachment(EventIcs, TRUE)>>, "eof"),
      Message(TRUE, <<Attachment(ReceiptPdf, FALSE), Attachment(InvoicePdf, TRUE)>>, "eof"),
      Message(TRUE, <<Attachment(InvoicePdf, TRUE)>>, "error"),
      Message(FALSE, <<>>, "eof") }

\* Messages of one or two parts, of every kind a part can be of.
PartKinds ==
    { Inline, Attachment(InvoicePdf, TRUE), Attachment(ReceiptPdf, FALSE),
      Attachment(EventIcs, TRUE) }
PartSequences ==
    {<<first>> : first \in PartKinds} \cup {<<first, second>> : first, second \in PartKinds}
MultipartShapes == {Message(TRUE, parts, end) : parts \in PartSequences, end \in {"eof", "error"}}

(***************************************************************************)
(* Config: the four required environment variables, set or blank.          *)
(***************************************************************************)
ConfigFields == {"IMAPServer", "IMAPUser", "IMAPPassword", "LexofficeKey"}
Configs ==
    { c \in [ConfigFields -> {"", "set"}] : Cardinality({f \in ConfigFields : c[f] = ""}) <= 1 }

(***************************************************************************)
(* HTTP: what client.Do returns to uploadToLexoffice.                      *)
(***************************************************************************)
\* Largest status code of a response.
MaxStatus == 999

Response(status, body) == [transportError |-> FALSE, status |-> status, body |-> body]
TransportError == [transportError |-> TRUE, status |-> 0, body |-> ""]
\* No particular response is set up: the API may answer anything.
NoResponse == [transportError |-> FALSE, status |-> 0, body |-> "unset"]

Bodies == {"", "{\"id\":\"1\"}", "{\"message\":\"Unauthorized\"}"}
AllResponses == {TransportError} \cup {Response(status, body) : status \in 0..MaxStatus, body \in Bodies}

\* The responses the API gives in the runs of the whole program.
Responses ==
    {TransportError} \cup {Response(status, "") : status \in {199, 200, 204, 299, 300, 404, 500}}

\* The status check as it would be with the upper limit off by one.
uploadToLexofficeOffByOne(resp) ==
    IF resp.transportError THEN FALSE
    ELSE IF resp.status < 200 \/ resp.status > 300 THEN FALSE
    ELSE TRUE

\* uploadToLexoffice's result for a response: TRUE is a nil error.
uploadToLexoffice(resp) ==
    IF resp.transportError THEN FALSE
    ELSE IF resp.status < 200 \/ resp.status >= 300 THEN FALSE
    ELSE TRUE

VARIABLES
    config,         \* loadConfig()
    runOnce,        \* the -once flag
    pc,             \* position of the main goroutine
    tickPending,    \* a tick waits in ticker.C (buffer of one)
    session,        \* the IMAP connection c of the current cycle
    inbox,          \* UIDs in INBOX, in sequence-number order
    flags,          \* UIDs in INBOX flagged \Deleted
    done,           \* number of copies of each UID in the "done" folder
    folders,        \* names of the folders other than INBOX
    content,        \* the bytes of each message, as the parser sees them
    httpResp,       \* the response the API is set up to give, or NoResponse
    numMessages,    \* mailbox.NumMessages of the current cycle, -1 before Select
    msgs,           \* UIDs listed by the cycle's first Fetch
    idx,            \* position of the range loop over msgs
    invoked,        \* UIDs processMessage was called with in this cycle
    uid,            \* processMessage's uid
    partIdx,        \* number of parts mr.NextPart has produced
    hasAttachments, \* processMessage's hasAttachments
    err,            \* processMessage's return value
    calls,          \* the calls processMessage has made for uid, in order
    logoutIssued    \* Logout was issued on the current connection

cycleVars == <<numMessages, msgs, idx, invoked, logoutIssued>>
msgVars == <<uid, partIdx, hasAttachments, err, calls>>
storeVars == <<inbox, flags, done, folders>>
fixedVars == <<config, runOnce, content, httpResp>>
vars == <<config, runOnce, pc, tickPending, session, inbox, flags, done, folders, content,
          httpResp,
          numMessages, msgs, idx, invoked, uid, partIdx, hasAttachments, err, calls,
          logoutIssued>>

DoneFolder == "done"
NoDone == [u \in UIDs |-> 0]

RECURSIVE SumTo(_, _)
SumTo(f, n) == IF n = 0 THEN 0 ELSE f[n] + SumTo(f, n - 1)
DoneSize == SumTo(done, MaxUID)

Call(op, name, folder, ok) ==
    [op |-> op, uid |-> uid, name |-> name, folder |-> folder, ok |-> ok]

\* The state when main starts, for a given configuration, -once flag and mailbox:
\* the messages and the ones among them that are flagged \Deleted.
StartWith(cfg, once, mail, deleted) ==
    /\ config = cfg
    /\ runOnce = once
    /\ pc = "main"
    /\ tickPending = FALSE
    /\ session = "none"
    /\ inbox = [i \in 1..MaxUID |-> i]
    /\ flags = deleted
    /\ done = NoDone
    /\ folders \in {{}, {DoneFolder}}
    /\ content = mail
    /\ httpResp = NoResponse
    /\ numMessages = -1
    /\ msgs = <<>>
    /\ idx = 0
    /\ invoked = <<>>
    /\ uid = 0
    /\ partIdx = 0
    /\ hasAttachments = FALSE
    /\ err = "nil"
    /\ calls = <<>>
    /\ logoutIssued = FALSE

Start(cfg, once) == \E mail \in [UIDs -> Shapes] : StartWith(cfg, once, mail, {})

Init == \E cfg \in Configs, once \in BOOLEAN : Start(cfg, once)


(***************************************************************************)
(* main                                                                    *)
(***************************************************************************)
ConfigComplete ==
    ~(config["IMAPServer"] = "" \/ config["IMAPUser"] = "" \/ config["IMAPPassword"] = ""
        \/ config["LexofficeKey"] = "")

\* main, lines 63-85: validate the configuration, then the first cycle.
Main ==
    /\ pc = "main"
    /\ pc' = IF ConfigComplete THEN "dial" ELSE "fatal"
    /\ UNCHANGED <<tickPending, session, storeVars, fixedVars, cycleVars, msgVars>>

\* Tick as it would be if every tick started processMailbox at once.
TickStartsCycle ==
    /\ ~runOnce
    /\ pc \notin {"main", "fatal"}
    /\ ~tickPending
    /\ tickPending' = TRUE
    /\ pc' = "dial"
    /\ UNCHANGED <<session, storeVars, fixedVars, cycleVars, msgVars>>

\* The runtime's ticker: a tick is dropped while one is still waiting in the channel.
Tick ==
    /\ ~runOnce
    /\ pc \notin {"main", "fatal"}
    /\ ~tickPending
    /\ tickPending' = TRUE
    /\ UNCHANGED <<pc, session, storeVars, fixedVars, cycleVars, msgVars>>

\* processMailbox has returned to main: exit (-once) or wait for the ticker.
AfterCycle ==
    /\ pc = "returned"
    /\ pc' = IF runOnce THEN "exit" ELSE "wait"
    /\ session' = "none"
    /\ numMessages' = -1
    /\ msgs' = <<>>
    /\ idx' = 0
    /\ invoked' = <<>>
    /\ logoutIssued' = FALSE
    /\ UNCHANGED <<tickPending, storeVars, fixedVars, msgVars>>

\* for range ticker.C
Wait ==
    /\ pc = "wait"
    /\ tickPending
    /\ tickPending' = FALSE
    /\ pc' = "dial"
    /\ UNCHANGED <<session, storeVars, fixedVars, cycleVars, msgVars>>

(***************************************************************************)
(* processMailbox                                                          *)
(***************************************************************************)
\* DialTLS as it would be if a failed connect were fatal (log.Fatalf).
DialTLSFatal ==
    /\ pc = "dial"
    /\ \E ok \in BOOLEAN :
        IF ok THEN session' = "connected" /\ pc' = "login"
        ELSE session' = session /\ pc' = "fatal"
    /\ UNCHANGED <<tickPending, storeVars, fixedVars, cycleVars, msgVars>>

DialTLS ==
    /\ pc = "dial"
    /\ \E ok \in BOOLEAN :
        IF ok THEN session' = "connected" /\ pc' = "login"
        ELSE session' = session /\ pc' = "returned"
    /\ UNCHANGED <<tickPending, storeVars, fixedVars, cycleVars, msgVars>>

Login ==
    /\ pc = "login"
    /\ \E ok \in BOOLEAN :
        IF ok THEN session' = "authenticated" /\ pc' = "select"
        ELSE session' = session /\ pc' = "close"
    /\ UNCHANGED <<tickPending, storeVars, fixedVars, cycleVars, msgVars>>

\* Select as it would be if its error were only logged.
SelectContinuesOnError ==
    /\ pc = "select"
    /\ \E ok \in BOOLEAN :
        IF ok
        THEN /\ session' = "selected"
             /\ numMessages' = Len(inbox)
             /\ pc' = IF Len(inbox) = 0 THEN "close" ELSE "list"
        ELSE /\ session' = session
             /\ numMessages' = Len(inbox)
             /\ pc' = "list"
    /\ UNCHANGED <<tickPending, storeVars, fixedVars, msgs, idx, invoked,
                   logoutIssued, msgVars>>

\* Select as it would be if the cycle created the "done" folder up front.
SelectEnsuresFolder ==
    /\ pc = "select"
    /\ \E ok \in BOOLEAN :
        IF ok
        THEN /\ session' = "selected"
             /\ numMessages' = Len(inbox)
             /\ calls' = Append(calls, Call("create", NoName, DoneFolder, DoneFolder \notin folders))
             /\ folders' = folders \cup {DoneFolder}
             /\ pc' = IF Len(inbox) = 0 THEN "close" ELSE "list"
        ELSE /\ session' = session
             /\ numMessages' = numMessages
             /\ calls' = calls
             /\ folders' = folders
             /\ pc' = "close"
    /\ UNCHANGED <<tickPending, inbox, flags, done, fixedVars, msgs, idx, invoked,
                   logoutIssued, uid, partIdx, hasAttachments, err>>

\* Select("INBOX") and the NumMessages == 0 early return.
Select ==
    /\ pc = "select"
    /\ \E ok \in BOOLEAN :
        IF ok
        THEN /\ session' = "selected"
             /\ numMessages' = Len(inbox)
             /\ pc' = IF Len(inbox) = 0 THEN "close" ELSE "list"
        ELSE /\ session' = session
             /\ numMessages' = numMessages
             /\ pc' = "close"
    /\ UNCHANGED <<tickPending, storeVars, fixedVars, msgs, idx, invoked,
                   logoutIssued, msgVars>>

\* Fetch of sequence numbers 1..NumMessages, UIDs only.
FetchUIDs ==
    /\ pc = "list"
    /\ \E ok \in BOOLEAN :
        IF ok
        THEN /\ msgs' = SubSeq(inbox, 1, IF numMessages <= Len(inbox) THEN numMessages ELSE Len(inbox))
             /\ idx' = 1
             /\ pc' = "loop"
        ELSE /\ msgs' = msgs
             /\ idx' = idx
             /\ pc' = "close"
    /\ UNCHANGED <<tickPending, session, storeVars, fixedVars, numMessages, invoked,
                   logoutIssued, msgVars>>

\* Loop as it would be if the cycle ended without Logout.
LoopSkipsLogout ==
    /\ pc = "loop"
    /\ IF idx <= Len(msgs)
       THEN /\ uid' = msgs[idx]
            /\ invoked' = Append(invoked, msgs[idx])
            /\ partIdx' = 0
            /\ hasAttachments' = FALSE
            /\ err' = "nil"
            /\ calls' = <<>>
            /\ pc' = "fetch"
       ELSE /\ pc' = "close"
            /\ UNCHANGED <<invoked, msgVars>>
    /\ UNCHANGED <<tickPending, session, storeVars, fixedVars, numMessages, msgs, idx,
                   logoutIssued>>

\* The range loop: call processMessage for the next UID, or leave the loop.
Loop ==
    /\ pc = "loop"
    /\ IF idx <= Len(msgs)
       THEN /\ uid' = msgs[idx]
            /\ invoked' = Append(invoked, msgs[idx])
            /\ partIdx' = 0
            /\ hasAttachments' = FALSE
            /\ err' = "nil"
            /\ calls' = <<>>
            /\ pc' = "fetch"
       ELSE /\ pc' = "logout"
            /\ UNCHANGED <<invoked, msgVars>>
    /\ UNCHANGED <<tickPending, session, storeVars, fixedVars, numMessages, msgs, idx,
                   logoutIssued>>

\* LoopNext as it would be if an error of processMessage ended the loop.
LoopNextStopsOnError ==
    /\ pc = "return"
    /\ idx' = idx + 1
    /\ uid' = 0
    /\ partIdx' = 0
    /\ hasAttachments' = FALSE
    /\ err' = "nil"
    /\ calls' = <<>>
    /\ pc' = IF err = "nil" THEN "loop" ELSE "logout"
    /\ UNCHANGED <<tickPending, session, storeVars, fixedVars, numMessages, msgs, invoked,
                   logoutIssued>>

\* processMessage returned: log its error, if any, and go on with the next message.
LoopNext ==
    /\ pc = "return"
    /\ idx' = idx + 1
    /\ uid' = 0
    /\ partIdx' = 0
    /\ hasAttachments' = FALSE
    /\ err' = "nil"
    /\ calls' = <<>>
    /\ pc' = "loop"
    /\ UNCHANGED <<tickPending, session, storeVars, fixedVars, numMessages, msgs, invoked,
                   logoutIssued>>

Logout ==
    /\ pc = "logout"
    /\ logoutIssued' = TRUE
    /\ \E ok \in BOOLEAN : session' = IF ok THEN "loggedout" ELSE session
    /\ pc' = "close"
    /\ UNCHANGED <<tickPending, storeVars, fixedVars, numMessages, msgs, idx, invoked,
                   msgVars>>

\* defer c.Close()
Close ==
    /\ pc = "close"
    /\ session' = "closed"
    /\ pc' = "returned"
    /\ UNCHANGED <<tickPending, storeVars, fixedVars, cycleVars, msgVars>>


(***************************************************************************)
(* processMessage                                                          *)
(***************************************************************************)
InInbox(u) == \E i \in 1..Len(inbox) : inbox[i] = u

Parts == content[uid].parts

\* UID FETCH of the body, and the checks on its result (lines 156-184).
\* FetchBody as it would be if it addressed the message by its position in msgs.
FetchBodyBySeqNum ==
    /\ pc = "fetch"
    /\ \E outcome \in {"error", "response", "nobody"} :
        /\ outcome = "nobody" => idx <= Len(inbox)
        /\ calls' = Append(calls, Call("fetch", NoName, "", outcome # "error"))
        /\ err' = CASE outcome = "error" -> "fetch failed"
                    [] outcome = "response" /\ idx > Len(inbox) -> "message not found"
                    [] outcome = "nobody" -> "no body found"
                    [] OTHER -> "nil"
        /\ pc' = IF outcome = "response" /\ idx <= Len(inbox) THEN "createReader" ELSE "return"
    /\ UNCHANGED <<tickPending, session, storeVars, fixedVars, cycleVars, uid, partIdx,
                   hasAttachments>>

FetchBody ==
    /\ pc = "fetch"
    /\ \E outcome \in {"error", "response", "nobody"} :
        /\ outcome = "nobody" => InInbox(uid)
        /\ calls' = Append(calls, Call("fetch", NoName, "", outcome # "error"))
        /\ err' = CASE outcome = "error" -> "fetch failed"
                    [] outcome = "response" /\ ~InInbox(uid) -> "message not found"
                    [] outcome = "nobody" -> "no body found"
                    [] OTHER -> "nil"
        /\ pc' = IF outcome = "response" /\ InInbox(uid) THEN "createReader" ELSE "return"
    /\ UNCHANGED <<tickPending, session, storeVars, fixedVars, cycleVars, uid, partIdx,
                   hasAttachments>>

\* mail.CreateReader (lines 186-192).
CreateReader ==
    /\ pc = "createReader"
    /\ calls' = Append(calls, Call("parse", NoName, "", content[uid].headerOk))
    /\ IF content[uid].headerOk
       THEN /\ hasAttachments' = FALSE
            /\ partIdx' = 0
            /\ err' = err
            /\ pc' = "nextPart"
       ELSE /\ err' = "failed to create mail reader"
            /\ pc' = "return"
            /\ UNCHANGED <<hasAttachments, partIdx>>
    /\ UNCHANGED <<tickPending, session, storeVars, fixedVars, cycleVars, uid>>

\* NextPart as it would be if an ignored attachment did not count as an attachment.
NextPartIgnoredNotCounted ==
    /\ pc = "nextPart"
    /\ IF partIdx + 1 > Len(Parts)
       THEN /\ IF content[uid].end = "eof"
               THEN err' = err /\ pc' = "afterParts"
               ELSE err' = "failed to read part" /\ pc' = "return"
            /\ UNCHANGED <<partIdx, hasAttachments, calls>>
       ELSE LET part == Parts[partIdx + 1] IN
            /\ partIdx' = partIdx + 1
            /\ err' = err
            /\ IF part.kind = "attachment"
               THEN /\ hasAttachments' = (hasAttachments \/ ~shouldIgnoreFile(part.filename))
                    /\ calls' = Append(calls,
                            Call("filter", part.filename, "", shouldIgnoreFile(part.filename)))
                    /\ pc' = IF shouldIgnoreFile(part.filename) THEN "nextPart" ELSE "readAll"
               ELSE /\ pc' = "nextPart"
                    /\ UNCHANGED <<hasAttachments, calls>>
    /\ UNCHANGED <<tickPending, session, storeVars, fixedVars, cycleVars, uid>>

\* NextPart as it would be without the ignore check.
NextPartNoFilter ==
    /\ pc = "nextPart"
    /\ IF partIdx + 1 > Len(Parts)
       THEN /\ IF content[uid].end = "eof"
               THEN err' = err /\ pc' = "afterParts"
               ELSE err' = "failed to read part" /\ pc' = "return"
            /\ UNCHANGED <<partIdx, hasAttachments, calls>>
       ELSE LET part == Parts[partIdx + 1] IN
            /\ partIdx' = partIdx + 1
            /\ err' = err
            /\ IF part.kind = "attachment"
               THEN /\ hasAttachments' = TRUE
                    /\ calls' = Append(calls, Call("filter", part.filename, "", FALSE))
                    /\ pc' = "readAll"
               ELSE /\ pc' = "nextPart"
                    /\ UNCHANGED <<hasAttachments, calls>>
    /\ UNCHANGED <<tickPending, session, storeVars, fixedVars, cycleVars, uid>>

\* mr.NextPart, the type switch and the ignore check (lines 196-214).
NextPart ==
    /\ pc = "nextPart"
    /\ IF partIdx + 1 > Len(Parts)
       THEN /\ IF content[uid].end = "eof"
               THEN err' = err /\ pc' = "afterParts"
               ELSE err' = "failed to read part" /\ pc' = "return"
            /\ UNCHANGED <<partIdx, hasAttachments, calls>>
       ELSE LET part == Parts[partIdx + 1] IN
            /\ partIdx' = partIdx + 1
            /\ err' = err
            /\ IF part.kind = "attachment"
               THEN /\ hasAttachments' = TRUE
                    /\ calls' = Append(calls,
                            Call("filter", part.filename, "", shouldIgnoreFile(part.filename)))
                    /\ pc' = IF shouldIgnoreFile(part.filename) THEN "nextPart" ELSE "readAll"
               ELSE /\ pc' = "nextPart"
                    /\ UNCHANGED <<hasAttachments, calls>>
    /\ UNCHANGED <<tickPending, session, storeVars, fixedVars, cycleVars, uid>>

\* io.ReadAll(part.Body) (lines 216-221).
ReadAll ==
    /\ pc = "readAll"
    /\ calls' = Append(calls, Call("read", Parts[partIdx].filename, "", Parts[partIdx].readable))
    /\ pc' = IF Parts[partIdx].readable THEN "upload" ELSE "nextPart"
    /\ UNCHANGED <<tickPending, session, storeVars, fixedVars, cycleVars, uid, partIdx,
                   hasAttachments, err>>

\* Upload as it would be if a failed upload ended processMessage.
UploadAbortsOnFailure ==
    /\ pc = "upload"
    /\ \E resp \in (IF httpResp = NoResponse THEN Responses ELSE {httpResp}) :
        /\ calls' = Append(calls, Call("upload", Parts[partIdx].filename, "", uploadToLexoffice(resp)))
        /\ pc' = IF uploadToLexoffice(resp) THEN "nextPart" ELSE "return"
    /\ UNCHANGED <<tickPending, session, storeVars, fixedVars, numMessages, msgs, idx, invoked,
                   logoutIssued, uid, partIdx, hasAttachments, err>>

\* The call of uploadToLexoffice (lines 223-228); its error is only logged.
Upload ==
    /\ pc = "upload"
    /\ \E resp \in (IF httpResp = NoResponse THEN Responses ELSE {httpResp}) :
        calls' = Append(calls, Call("upload", Parts[partIdx].filename, "", uploadToLexoffice(resp)))
    /\ pc' = "nextPart"
    /\ UNCHANGED <<tickPending, session, storeVars, fixedVars, numMessages, msgs, idx, invoked,
                   logoutIssued, uid, partIdx, hasAttachments, err>>

\* AfterParts as it would be with the test of hasAttachments inverted.
AfterPartsInverted ==
    /\ pc = "afterParts"
    /\ pc' = IF ~hasAttachments THEN "ensureFolder" ELSE "return"
    /\ UNCHANGED <<tickPending, session, storeVars, fixedVars, cycleVars, msgVars>>

\* After the part loop (lines 232-242).
AfterParts ==
    /\ pc = "afterParts"
    /\ pc' = IF hasAttachments THEN "ensureFolder" ELSE "return"
    /\ UNCHANGED <<tickPending, session, storeVars, fixedVars, cycleVars, msgVars>>

(***************************************************************************)
(* moveToFolder(c, uid, "done") and ensureFolderExists                     *)
(***************************************************************************)
ToLower(name) == IF name = "Done" \/ name = "DONE" THEN "done" ELSE name
EqualFold(a, b) == ToLower(a) = ToLower(b)

\* A failure of any step is returned by processMessage as "failed to move message".
MoveFailed == err' = "failed to move message" /\ pc' = "return"

\* ListFolders as it would be if an error of the listing were taken for "not found".
ListFoldersIgnoresError ==
    /\ pc = "ensureFolder"
    /\ \E ok \in BOOLEAN :
        /\ calls' = Append(calls, Call("list", NoName, DoneFolder, ok))
        /\ LET mailboxes == IF ok THEN {f \in folders : f = DoneFolder} ELSE {} IN
           pc' = IF \E mbox \in mailboxes : EqualFold(mbox, DoneFolder) THEN "copy" ELSE "create"
        /\ err' = err
    /\ UNCHANGED <<tickPending, session, storeVars, fixedVars, cycleVars, uid, partIdx,
                   hasAttachments>>

\* List("", folderName) and the search for folderName in the result (lines 335-346).
ListFolders ==
    /\ pc = "ensureFolder"
    /\ \E ok \in BOOLEAN :
        /\ calls' = Append(calls, Call("list", NoName, DoneFolder, ok))
        /\ IF ok
           THEN LET mailboxes == {f \in folders : f = DoneFolder} IN
                /\ pc' = IF \E mbox \in mailboxes : EqualFold(mbox, DoneFolder)
                         THEN "copy" ELSE "create"
                /\ err' = err
           ELSE MoveFailed
    /\ UNCHANGED <<tickPending, session, storeVars, fixedVars, cycleVars, uid, partIdx,
                   hasAttachments>>

\* Create(folderName) (lines 348-354); the server rejects the name of an existing folder.
Create ==
    /\ pc = "create"
    /\ \E ok \in BOOLEAN :
        /\ ok => DoneFolder \notin folders
        /\ calls' = Append(calls, Call("create", NoName, DoneFolder, ok))
        /\ IF ok
           THEN folders' = folders \cup {DoneFolder} /\ err' = err /\ pc' = "copy"
           ELSE folders' = folders /\ MoveFailed
    /\ UNCHANGED <<tickPending, session, inbox, flags, done, fixedVars, numMessages, msgs, idx,
                   invoked, logoutIssued, uid, partIdx, hasAttachments>>

\* Copy as it would be if moveToFolder expunged without flagging the message first.
CopySkipsStore ==
    /\ pc = "copy"
    /\ \E ok \in BOOLEAN :
        /\ ok => (DoneFolder \in folders /\ DoneSize < DoneQuota)
        /\ calls' = Append(calls, Call("copy", NoName, DoneFolder, ok))
        /\ IF ok
           THEN /\ done' = IF InInbox(uid) THEN [done EXCEPT ![uid] = @ + 1] ELSE done
                /\ err' = err
                /\ pc' = "expunge"
           ELSE done' = done /\ MoveFailed
    /\ UNCHANGED <<tickPending, session, inbox, flags, folders, fixedVars, numMessages, msgs,
                   idx, invoked, logoutIssued, uid, partIdx, hasAttachments>>

\* UID COPY (lines 309-313); rejected without the folder or when the folder is full.
Copy ==
    /\ pc = "copy"
    /\ \E ok \in BOOLEAN :
        /\ ok => (DoneFolder \in folders /\ DoneSize < DoneQuota)
        /\ calls' = Append(calls, Call("copy", NoName, DoneFolder, ok))
        /\ IF ok
           THEN /\ done' = IF InInbox(uid) THEN [done EXCEPT ![uid] = @ + 1] ELSE done
                /\ err' = err
                /\ pc' = "store"
           ELSE done' = done /\ MoveFailed
    /\ UNCHANGED <<tickPending, session, inbox, flags, folders, fixedVars, numMessages, msgs,
                   idx, invoked, logoutIssued, uid, partIdx,
                   hasAttachments>>

\* Store as it would be if moveToFolder expunged after a failed store.
StoreIgnoresError ==
    /\ pc = "store"
    /\ \E ok \in BOOLEAN :
        /\ calls' = Append(calls, Call("store", NoName, "", ok))
        /\ flags' = IF ok /\ InInbox(uid) THEN flags \cup {uid} ELSE flags
        /\ err' = err
        /\ pc' = "expunge"
    /\ UNCHANGED <<tickPending, session, inbox, done, folders, fixedVars, numMessages, msgs,
                   idx, invoked, logoutIssued, uid, partIdx,
                   hasAttachments>>

\* UID STORE +FLAGS.SILENT (\Deleted) (lines 315-324).
Store ==
    /\ pc = "store"
    /\ \E ok \in BOOLEAN :
        /\ calls' = Append(calls, Call("store", NoName, "", ok))
        /\ IF ok
           THEN /\ flags' = IF InInbox(uid) THEN flags \cup {uid} ELSE flags
                /\ err' = err
                /\ pc' = "expunge"
           ELSE flags' = flags /\ MoveFailed
    /\ UNCHANGED <<tickPending, session, inbox, done, folders, fixedVars, numMessages, msgs,
                   idx, invoked, logoutIssued, uid, partIdx,
                   hasAttachments>>

\* EXPUNGE (lines 326-331): removes every message of INBOX flagged \Deleted.
Expunge ==
    /\ pc = "expunge"
    /\ \E ok \in BOOLEAN :
        /\ calls' = Append(calls, Call("expunge", NoName, "", ok))
        /\ IF ok
           THEN /\ inbox' = SelectSeq(inbox, LAMBDA u : u \notin flags)
                /\ flags' = {}
                /\ err' = err
                /\ pc' = "return"
           ELSE inbox' = inbox /\ flags' = flags /\ MoveFailed
    /\ UNCHANGED <<tickPending, session, done, folders, fixedVars, numMessages, msgs, idx,
                   invoked, logoutIssued, uid, partIdx, hasAttachments>>

(***************************************************************************)
(* Another client of the same account creates the "done" folder.           *)
(***************************************************************************)
OtherCreatesFolder ==
    /\ pc \notin {"main", "fatal", "exit"}
    /\ DoneFolder \notin folders
    /\ folders' = folders \cup {DoneFolder}
    /\ UNCHANGED <<pc, tickPending, session, inbox, flags, done, fixedVars, cycleVars, msgVars>>

Step ==
    \/ Main \/ AfterCycle \/ Wait
    \/ DialTLS \/ Login \/ Select \/ FetchUIDs \/ Loop \/ LoopNext \/ Logout \/ Close
    \/ FetchBody \/ CreateReader \/ NextPart \/ ReadAll \/ Upload \/ AfterParts
    \/ ListFolders \/ Create \/ Copy \/ Store \/ Expunge

Next == Step \/ Tick \/ OtherCreatesFolder

Spec == Init /\ [][Next]_vars

\* The messages that processMessage reads, uploads or fails to parse: the ones with an
\* attachment that is not ignored or with a header that mail.CreateReader rejects.
PeriodicShapes ==
    {m \in Shapes :
        \/ ~m.headerOk
        \/ \E k \in 1..Len(m.parts) :
            m.parts[k].kind = "attachment" /\ ~shouldIgnoreFile(m.parts[k].filename)}

\* The process started without -once and with every required variable set, on a
\* mailbox of such messages.
PeriodicInit ==
    \E mail \in [UIDs -> PeriodicShapes] :
        StartWith([f \in ConfigFields |-> "set"], FALSE, mail, {})

\* The calls run to completion (the IMAP client and the HTTP client time out) and the
\* ticker keeps ticking.
FairSpec == PeriodicInit /\ [][Next]_vars /\ WF_vars(Step) /\ WF_vars(Tick)

(***************************************************************************)
(* Reading the record of calls of the message being processed.             *)
(***************************************************************************)
MoveOps == {"list", "create", "copy", "store", "expunge"}
PartOps == {"filter", "read", "upload"}

InProcessMessage == uid \in UIDs

Indices(op) == {i \in 1..Len(calls) : calls[i].op = op}
MoveCalls == SelectSeq(calls, LAMBDA c : c.op \in MoveOps)
OpsOf(seq) == [i \in 1..Len(seq) |-> seq[i].op]

UploadFailed == \E i \in Indices("upload") : ~calls[i].ok
ReadFailed == \E i \in Indices("read") : ~calls[i].ok
Parsed == \E i \in Indices("parse") : calls[i].ok

AttachmentParts(u) == {k \in 1..Len(content[u].parts) : content[u].parts[k].kind = "attachment"}
QualifyingParts(u) ==
    {k \in AttachmentParts(u) : ~shouldIgnoreFile(content[u].parts[k].filename)}

\* Every attachment part of the message was reached, and each one that is not ignored
\* was uploaded with success.
AllQualifyingUploaded ==
    /\ Cardinality(Indices("filter")) = Cardinality(AttachmentParts(uid))
    /\ Cardinality({i \in Indices("upload") : calls[i].ok}) = Cardinality(QualifyingParts(uid))
    /\ ~UploadFailed

IsPrefix(s, t) == Len(s) <= Len(t) /\ \A i \in 1..Len(s) : s[i] = t[i]

\* One move transition on uid and "done": ensure-folder, copy, flag, expunge in this
\* order, a step being issued only after the one before it succeeded, all of it after
\* the last part was handled, and complete when processMessage returns no error.
OneMoveTransition ==
    LET m == MoveCalls IN
    /\ m # <<>>
    /\ \/ IsPrefix(OpsOf(m), <<"list", "copy", "store", "expunge">>)
       \/ IsPrefix(OpsOf(m), <<"list", "create", "copy", "store", "expunge">>)
    /\ \A i \in 1..Len(m) :
        /\ m[i].uid = uid
        /\ m[i].op \in {"list", "create", "copy"} => m[i].folder = DoneFolder
        /\ i < Len(m) => m[i].ok
    /\ \A i \in 1..Len(calls), j \in 1..Len(calls) :
        (calls[i].op \in PartOps /\ calls[j].op \in MoveOps) => i < j
    /\ err = "nil" => (m[Len(m)].op = "expunge" /\ m[Len(m)].ok)

(***************************************************************************)
(* C1: if the upload of a non-ignored attachment of a message fails, no    *)
(* call of the move (list, create, copy, store, expunge) is made for that  *)
(* message in the cycle.                                                   *)
(***************************************************************************)
C1_FailedUploadNeverMoves ==
    (InProcessMessage /\ UploadFailed) => MoveCalls = <<>>


C3_NoAttachmentNoMove ==
    (InProcessMessage /\ Parsed /\ AttachmentParts(uid) = {}) =>
        (MoveCalls = <<>> /\ InInbox(uid) /\ pc \notin {"ensureFolder", "create", "copy", "store", "expunge"})

C3_Witness ==
    /\ pc = "return"
    /\ err = "nil"
    /\ Parsed
    /\ AttachmentParts(uid) = {}
    /\ Len(content[uid].parts) > 0
    /\ MoveCalls = <<>>

(***************************************************************************)
(* C4: uploadToLexoffice is never called with a filename that              *)
(* shouldIgnoreFile accepts; every read of a payload directly follows the  *)
(* ignore check of the same filename, which said "not ignored", and every  *)
(* upload directly follows the read of the same filename.  (The ok field   *)
(* of a "filter" call is the result of shouldIgnoreFile.)                  *)
(***************************************************************************)
C4_IgnoredNeverUploaded ==
    \A i \in 1..Len(calls) :
        /\ calls[i].op = "upload" =>
            /\ ~shouldIgnoreFile(calls[i].name)
            /\ i > 1 /\ calls[i - 1].op = "read" /\ calls[i - 1].name = calls[i].name
            /\ calls[i - 1].ok
        /\ calls[i].op = "read" =>
            /\ ~shouldIgnoreFile(calls[i].name)
            /\ i > 1 /\ calls[i - 1].op = "filter" /\ calls[i - 1].name = calls[i].name
            /\ ~calls[i - 1].ok

C4_Witness ==
    /\ pc = "return"
    /\ \E i \in Indices("filter") : calls[i].ok /\ shouldIgnoreFile(calls[i].name)
    /\ Indices("upload") # {}
    /\ \A k \in AttachmentParts(uid) :
        shouldIgnoreFile(content[uid].parts[k].filename) =>
            ~\E i \in Indices("read") \cup Indices("upload") :
                calls[i].name = content[uid].parts[k].filename

(***************************************************************************)
(* C5: once the loop over the listed messages is over, processMessage has  *)
(* been called for every listed message, in order, whatever the earlier    *)
(* calls returned; while the loop runs, the calls made so far are the      *)
(* first idx (or idx - 1) listed messages.                                 *)
(***************************************************************************)
C5_FailureDoesNotStopBatch ==
    /\ IsPrefix(invoked, msgs)
    /\ (pc \in {"logout", "close", "returned"} /\ idx > 0) => invoked = msgs
    /\ pc = "return" => (Len(invoked) = idx /\ invoked[idx] = uid)

C5_Witness ==
    /\ pc = "fetch"
    /\ idx = 2
    /\ invoked = msgs
    /\ ~content[msgs[1]].headerOk
    /\ InInbox(msgs[1])

(***************************************************************************)
(* C6: if io.ReadAll fails on a non-ignored attachment of a message, no    *)
(* call of the move is made for that message in the cycle.                 *)
(***************************************************************************)
C6_FailedReadNeverMoves ==
    (InProcessMessage /\ ReadFailed) => ~(\E i \in 1..Len(calls) : calls[i].op \in MoveOps)

(***************************************************************************)
(* C7: a cycle whose Select finds the INBOX empty makes no call at all     *)
(* for a message (no body fetch, no upload, no list, create, copy, store,  *)
(* expunge) and leaves the INBOX, its flags and the "done" folder as they  *)
(* are; it goes from Select to Close.                                      *)
(***************************************************************************)
C7_EmptyInboxCycleDoesNothing ==
    [][(numMessages = 0 \/ numMessages' = 0) =>
        /\ calls' = <<>>
        /\ inbox' = inbox /\ flags' = flags /\ done' = done
        /\ pc' \in {"select", "close", "returned", "wait", "exit"}]_vars

C7_Witness ==
    /\ pc = "returned"
    /\ numMessages = 0
    /\ ~runOnce
    /\ inbox = <<>>
    /\ DoneSize = MaxUID
    /\ calls = <<>>

(***************************************************************************)
(* C8, as stated: when the "done" folder was absent in the List result but *)
(* exists when Create is issued, the move goes on to the copy step.        *)
(***************************************************************************)
C8_CreateOfExistingFolderProceeds ==
    [][(pc = "create" /\ DoneFolder \in folders /\ pc' # pc) => pc' = "copy"]_vars

(***************************************************************************)
(* C9: when processMailbox has returned the connection is not open; if the *)
(* messages were listed, Logout was issued before the connection was       *)
(* closed; and no command is issued on a connection after Logout or Close. *)
(***************************************************************************)
CommandPcs ==
    {"login", "select", "list", "fetch", "ensureFolder", "create", "copy", "store", "expunge"}

C9_LogoutAtEndOfCycle ==
    /\ pc = "returned" => session \in {"none", "closed"}
    /\ (pc = "returned" /\ idx > 0) => (logoutIssued /\ session = "closed" /\ idx = Len(msgs) + 1)
    /\ pc \in CommandPcs => (session \in {"connected", "authenticated", "selected"} /\ ~logoutIssued)
    /\ pc \in {"wait", "exit"} => session = "none"

C9_Witness ==
    /\ pc = "returned"
    /\ logoutIssued
    /\ session = "closed"
    /\ Len(invoked) = MaxUID
    /\ \E i \in 1..Len(msgs) : ~content[msgs[i]].headerOk
    /\ \E i \in 1..Len(msgs) : ~InInbox(msgs[i])

(***************************************************************************)
(* C10: in periodic mode with a complete configuration the process never   *)
(* exits, and a new cycle starts again and again, whatever failed before.  *)
(***************************************************************************)
Periodic == ConfigComplete /\ ~runOnce

C10_CyclesRecur ==
    /\ [](Periodic => pc \notin {"exit", "fatal"})
    /\ []<>(Periodic => pc = "dial")

C10_Witness ==
    /\ Periodic
    /\ pc = "dial"
    /\ flags # {}
    /\ \E u \in UIDs : ~content[u].headerOk /\ InInbox(u)

(***************************************************************************)
(* processMessage at a single part.  The process has selected INBOX,       *)
(* fetched message 1 and created its reader; the message is one attachment *)
(* part.                                                                   *)
(***************************************************************************)
AtPart(part, position, log) ==
    /\ config = [f \in ConfigFields |-> "set"]
    /\ runOnce = TRUE
    /\ pc = position
    /\ tickPending = FALSE
    /\ session = "selected"
    /\ inbox = [i \in 1..MaxUID |-> i]
    /\ flags = {}
    /\ done = NoDone
    /\ folders = {}
    /\ content = [u \in UIDs |-> IF u = 1 THEN Message(TRUE, <<part>>, "eof")
                                         ELSE Message(TRUE, <<Inline>>, "eof")]
    /\ numMessages = MaxUID
    /\ msgs = inbox
    /\ idx = 1
    /\ invoked = <<1>>
    /\ uid = 1
    /\ partIdx = IF position = "nextPart" THEN 0 ELSE 1
    /\ hasAttachments = (position # "nextPart")
    /\ err = "nil"
    /\ calls = [i \in 1..Len(log) |->
                    Call(log[i], IF i > 2 THEN part.filename ELSE NoName, "", i # 3)]
    /\ logoutIssued = FALSE

\* The part loop meets an attachment with any of the filenames.
FilterInit ==
    \E filename \in Filenames :
        /\ httpResp = NoResponse
        /\ AtPart(Attachment(filename, TRUE), "nextPart", <<"fetch", "parse">>)

FilterSpec == FilterInit /\ [][NextPart]_vars

\* The payload of invoice.pdf was read and the API is set up to give any one response.
UploadInit ==
    \E resp \in AllResponses :
        /\ httpResp = resp
        /\ AtPart(Attachment(InvoicePdf, TRUE), "upload", <<"fetch", "parse", "filter", "read">>)

UploadSpec == UploadInit /\ [][Upload]_vars

\* The process started with every required variable set on a mailbox whose first
\* message is a multipart message and whose other messages are plain text.
MultipartInit ==
    \E once \in BOOLEAN, first \in MultipartShapes :
        StartWith([f \in ConfigFields |-> "set"], once,
                  [u \in UIDs |-> IF u = 1 THEN first ELSE Message(TRUE, <<Inline>>, "eof")], {})

MultipartSpec == MultipartInit /\ [][Next]_vars

\* The process started with every required variable set on a mailbox in which a mail
\* client has flagged some messages \Deleted without expunging them.
MarkedInit ==
    \E once \in BOOLEAN, mail \in [UIDs -> Shapes], deleted \in SUBSET UIDs :
        /\ deleted # {}
        /\ StartWith([f \in ConfigFields |-> "set"], once, mail, deleted)

MarkedSpec == MarkedInit /\ [][Next]_vars

HasPrefix(s, prefix) == Len(s) >= Len(prefix) /\ SubSeq(s, 1, Len(prefix)) = prefix
\* Some character other than a newline, then "ics", at the end of s.
EndsInAnyIcs(s) ==
    /\ Len(s) >= 4
    /\ SubSeq(s, Len(s) - 2, Len(s)) = <<"i","c","s">>
    /\ s[Len(s) - 3] # "\n"

MatchesSomePattern(filename) ==
    \E p \in 1..Len(IgnorePatterns) : MatchString(IgnorePatterns[p], filename)

\* C11: shouldIgnoreFile(filename) is true exactly when the filename matches at least
\* one ignore pattern, that is, when it begins with "AGB_", begins with "Receipt-" or
\* matches .ics$, whatever the order of the patterns; the part loop skips exactly
\* those attachments.  AGB_2024.pdf and event.ics are skipped, invoice.pdf and the
\* empty filename are not.
C11_FilterMatchesPatterns ==
    \A i \in Indices("filter") :
        /\ calls[i].ok = MatchesSomePattern(calls[i].name)
        /\ calls[i].ok = ( \/ HasPrefix(calls[i].name, <<"A","G","B","_">>)
                           \/ HasPrefix(calls[i].name, <<"R","e","c","e","i","p","t","-">>)
                           \/ EndsInAnyIcs(calls[i].name) )
        /\ calls[i].name \in {Agb2024Pdf, EventIcs} => calls[i].ok
        /\ calls[i].name \in {InvoicePdf, NoName} => ~calls[i].ok
        /\ pc = "readAll" => ~calls[i].ok

\* A filename only the last pattern matches went through the filter and was skipped.
C11_Witness ==
    \E i \in Indices("filter") :
        /\ calls[i].name = <<"R","e","c","e","i","p","t","-",".">>
        /\ calls[i].ok
        /\ pc = "nextPart"

\* C12: without a transport error uploadToLexoffice succeeds for every status in
\* 200..299 and fails for every other status, whatever the body; a transport error
\* is a failure.
C12_UploadResultIsStatusClass ==
    \A i \in Indices("upload") :
        /\ httpResp.transportError => ~calls[i].ok
        /\ ~httpResp.transportError => (calls[i].ok <=> httpResp.status \in 200..299)
        /\ \A body \in Bodies :
            ~httpResp.transportError =>
                uploadToLexoffice(Response(httpResp.status, body)) = calls[i].ok

\* A 2xx response with an error text in its body was reported as success.
C12_Witness ==
    \E i \in Indices("upload") :
        /\ httpResp = Response(299, "{\"message\":\"Unauthorized\"}")
        /\ calls[i].ok
        /\ pc = "nextPart"

\* What the part loop does with one part, as <<operation, filename>> pairs.
CallsForPart(part) ==
    IF part.kind # "attachment" THEN <<>>
    ELSE IF shouldIgnoreFile(part.filename) THEN << <<"filter", part.filename>> >>
    ELSE IF ~part.readable THEN << <<"filter", part.filename>>, <<"read", part.filename>> >>
    ELSE << <<"filter", part.filename>>, <<"read", part.filename>>, <<"upload", part.filename>> >>

RECURSIVE CallsForParts(_, _)
CallsForParts(parts, k) ==
    IF k > Len(parts) THEN <<>> ELSE CallsForPart(parts[k]) \o CallsForParts(parts, k + 1)

PartCalls ==
    LET made == SelectSeq(calls, LAMBDA c : c.op \in PartOps) IN
    [i \in 1..Len(made) |-> <<made[i].op, made[i].name>>]

NoDuplicates(seq) == \A i, j \in 1..Len(seq) : seq[i] = seq[j] => i = j

PartLoopPcs == {"nextPart", "readAll", "upload"}

\* C13: whatever the outcome of the uploads and payload reads of a message, the part
\* loop filters every attachment part, reads every one that is not ignored and
\* uploads every one that was read, each exactly once and in the order of the parts;
\* and processMessage is called once per message of a cycle.
C13_PartLoopNeverAborts ==
    /\ NoDuplicates(invoked)
    /\ InProcessMessage =>
        /\ IsPrefix(PartCalls, CallsForParts(Parts, 1))
        /\ (Parsed /\ pc \notin PartLoopPcs) => PartCalls = CallsForParts(Parts, 1)

\* The first attachment could not be uploaded and the second one was uploaded.
C13_Witness ==
    /\ pc = "afterParts"
    /\ \E i, j \in Indices("upload") : i < j /\ ~calls[i].ok /\ calls[j].ok

\* The message being processed was parsed, has attachment parts and all of them have
\* ignored filenames.
AllAttachmentsIgnored ==
    /\ InProcessMessage
    /\ Parsed
    /\ AttachmentParts(uid) # {}
    /\ QualifyingParts(uid) = {}

FailedMoveCalls == {i \in 1..Len(calls) : calls[i].op \in MoveOps /\ ~calls[i].ok}
FailedIn(ops) == {i \in FailedMoveCalls : calls[i].op \in ops}

\* A failed move step is the last call of processMessage, which returns the error.
EndsTheCall(i) ==
    /\ i = Len(calls)
    /\ pc = "return"
    /\ err = "failed to move message"

\* INBOX, its flags and "done" change only by a COPY, a STORE or an EXPUNGE that
\* succeeds.
MailChangesOnlyBySuccess ==
    \/ UNCHANGED <<inbox, flags, done>>
    \/ pc = "copy" /\ pc' = "store"
    \/ pc = "store" /\ pc' = "expunge"
    \/ pc = "expunge" /\ pc' = "return" /\ err' = "nil"

\* C15, as stated: after the ensure-folder step or the copy step of moveToFolder
\* failed, no store and no expunge is issued, an error is returned, and the message
\* is in the INBOX, unflagged.
C15_FailedCopyLeavesUnflagged ==
    \A i \in FailedIn({"list", "create", "copy"}) :
        /\ EndsTheCall(i)
        /\ Indices("store") = {} /\ Indices("expunge") = {}
        /\ InInbox(uid)
        /\ uid \notin flags

\* C15, amended: after the ensure-folder step or the copy step failed, no store and
\* no expunge is issued, an error is returned, the message is in the INBOX, and the
\* call has changed neither a flag nor the content of INBOX or of "done": no step
\* of it that changes them has succeeded.
C15_FailedCopyChangesNothing ==
    /\ [](\A i \in FailedIn({"list", "create", "copy"}) :
            /\ EndsTheCall(i)
            /\ Indices("store") = {} /\ Indices("expunge") = {}
            /\ \A j \in Indices("copy") : ~calls[j].ok
            /\ InInbox(uid))
    /\ [][MailChangesOnlyBySuccess]_vars

\* The copy failed for a message that an earlier cycle copied and flagged but could
\* not expunge.
C15_Witness ==
    /\ FailedIn({"copy"}) # {}
    /\ pc = "return"
    /\ InInbox(uid)
    /\ uid \in flags
    /\ done[uid] = 1

\* C16, as stated: after a failed move the mailbox is in the condition of the failing
\* step.  Ensure-folder or copy: the message is only in INBOX and unflagged.  Flag
\* step: a copy is in "done", the original is in INBOX unflagged, no expunge was
\* issued.  Expunge: a copy is in "done", the original is in INBOX flagged.  No step
\* is issued twice in a call.
C16_FailedMoveCondition ==
    /\ \A i \in FailedIn({"list", "create", "copy"}) :
        EndsTheCall(i) /\ InInbox(uid) /\ uid \notin flags /\ done[uid] = 0
    /\ \A i \in FailedIn({"store"}) :
        EndsTheCall(i) /\ InInbox(uid) /\ uid \notin flags /\ done[uid] >= 1
            /\ Indices("expunge") = {}
    /\ \A i \in FailedIn({"expunge"}) :
        EndsTheCall(i) /\ InInbox(uid) /\ uid \in flags /\ done[uid] >= 1
    /\ \A op \in MoveOps : Cardinality(Indices(op)) <= 1

\* C16, amended: the conditions are relative to the mailbox before the call.  Ensure-
\* folder or copy failed: the message is in INBOX and no step that changes the
\* mailbox has succeeded.  Flag step failed: the call added a copy to "done", the
\* original is in INBOX, no flag was set and no expunge was issued.  Expunge failed:
\* the call added a copy to "done" and the original is in INBOX flagged.  No step is
\* issued twice in a call, and the mailbox changes only by a step that succeeds.
C16_FailedMoveRelativeCondition ==
    /\ [](/\ \A i \in FailedIn({"list", "create", "copy"}) :
               /\ EndsTheCall(i) /\ InInbox(uid)
               /\ \A j \in Indices("copy") \cup Indices("store") \cup Indices("expunge") :
                    j = i
          /\ \A i \in FailedIn({"store"}) :
               /\ EndsTheCall(i) /\ InInbox(uid) /\ done[uid] >= 1
               /\ \E j \in Indices("copy") : calls[j].ok /\ j = i - 1
               /\ Indices("expunge") = {}
          /\ \A i \in FailedIn({"expunge"}) :
               /\ EndsTheCall(i) /\ InInbox(uid) /\ uid \in flags /\ done[uid] >= 1
               /\ \E j \in Indices("store") : calls[j].ok /\ j = i - 1
          /\ \A op \in MoveOps : Cardinality(Indices(op)) <= 1)
    /\ [][MailChangesOnlyBySuccess]_vars

\* The flag step failed for a message that an earlier failed move had left in "done".
C16_Witness ==
    /\ FailedIn({"store"}) # {}
    /\ pc = "return"
    /\ InInbox(uid)
    /\ done[uid] = 2
    /\ Indices("expunge") = {}

\* Positions of processMailbox inside the range loop and inside processMessage.
MessagePcs ==
    {"loop", "fetch", "createReader", "nextPart", "readAll", "upload", "afterParts",
     "ensureFolder", "create", "copy", "store", "expunge", "return"}

\* C17: a cycle processes messages only after connect, login, select and the listing
\* of identifiers all succeeded; a failure of one of them ends the cycle, and until
\* the listing has succeeded the cycle makes no body fetch, no upload and no other
\* call on a message, and changes neither INBOX, its flags nor "done", and creates
\* no folder.
C17_FailedSetupTouchesNothing ==
    /\ [](/\ pc = "login" => session = "connected"
          /\ pc = "select" => session = "authenticated"
          /\ pc = "list" => (session = "selected" /\ numMessages >= 1)
          /\ pc \in MessagePcs => (idx >= 1 /\ session = "selected" /\ numMessages >= 1)
          /\ idx = 0 => (calls = <<>> /\ invoked = <<>> /\ uid = 0))
    /\ [][idx = 0 =>
            /\ UNCHANGED <<inbox, flags, done>>
            /\ calls' = <<>>
            /\ pc' # pc => folders' = folders
            /\ idx' # 0 => (pc = "list" /\ pc' = "loop")
            /\ (pc \in {"dial", "login", "select", "list"} /\ pc' \in {"returned", "close"}) =>
                idx' = 0]_vars

\* The listing of identifiers failed in a cycle that had selected a non-empty INBOX.
C17_Witness ==
    /\ pc = "returned"
    /\ session = "closed"
    /\ idx = 0
    /\ numMessages = MaxUID
    /\ Len(inbox) = MaxUID
    /\ ~logoutIssued

\* C18: in a cycle processMessage is invoked once for each identifier listed, in
\* the order listed, one message at a time: every call in progress is for the
\* current identifier.  A message is addressed by its identifier: it is found
\* exactly when a message with that identifier is in the INBOX, whatever its
\* position after earlier messages were expunged, and its own parts are handled.
C18_EachListedOnceByUid ==
    /\ [](/\ NoDuplicates(msgs)
          /\ (pc \in MessagePcs \ {"loop"}) =>
                (idx \in 1..Len(msgs) /\ uid = msgs[idx] /\ invoked = SubSeq(msgs, 1, idx))
          /\ pc = "loop" => invoked = SubSeq(msgs, 1, idx - 1)
          /\ (pc \in {"logout", "close", "returned"} /\ idx >= 1) => invoked = msgs
          /\ \A i \in 1..Len(calls) : calls[i].uid = uid
          /\ (pc = "return" /\ err = "message not found") => ~InInbox(uid)
          /\ pc \in {"createReader", "nextPart", "readAll", "upload", "afterParts"} =>
                InInbox(uid)
          /\ InProcessMessage => IsPrefix(PartCalls, CallsForParts(content[uid].parts, 1)))
    /\ [][invoked' # invoked =>
            \/ pc = "loop" /\ pc' = "fetch" /\ calls' = <<>> /\ invoked' = Append(invoked, uid')
            \/ pc = "returned" /\ invoked' = <<>>]_vars

\* The second listed message is processed after the first one was expunged, when it
\* is the first message of the INBOX.
C18_Witness ==
    /\ pc = "afterParts"
    /\ idx = 2
    /\ uid = msgs[2]
    /\ Len(inbox) = MaxUID - 1
    /\ inbox[1] = uid
    /\ hasAttachments

\* C19: every message that is no longer in the INBOX, and every message that a
\* STORE of the call in progress has flagged \Deleted, has at least one copy in
\* "done".
C19_NoMessageLost ==
    /\ \A u \in UIDs : ~InInbox(u) => done[u] >= 1
    /\ \A i \in Indices("store") : (calls[i].ok /\ InInbox(uid)) => done[uid] >= 1

\* C20: processMailbox starts only from main's start or from the ticker loop, with no
\* session open; while it runs a tick only waits in the channel; and when it has
\* returned its session is closed.
C20_CyclesNeverOverlap ==
    /\ [](/\ pc \in {"main", "dial", "wait", "exit", "fatal"} => session = "none"
          /\ pc = "returned" => session \in {"none", "closed"})
    /\ [][/\ (pc' = "dial" /\ pc # "dial") => (pc \in {"main", "wait"} /\ session = "none")
          /\ (tickPending' /\ ~tickPending) => pc' = pc
          /\ (pc = "wait" /\ pc' # pc) => (tickPending /\ ~tickPending')]_vars

\* A tick arrived while a cycle is in the middle of a message.
C20_Witness ==
    /\ tickPending
    /\ pc = "upload"
    /\ session = "selected"
    /\ idx = MaxUID

====
